---- MODULE Spec2Model ----
(***************************************************************************)
(* Model of Scripts/RunIntegrationTests.py: the volume extractor           *)
(* (extract_volumes), the fuzzy differ (compare_maps, required_rel_tol)    *)
(* and the orchestrating loop of main with its tallies and exit code.      *)
(*                                                                         *)
(* Numbers.  Volumes and the absolute tolerance are integers (one unit is  *)
(* one model quantum of mm^3).  The match percentage is an integer number  *)
(* of percent, and the relative tolerance 1 - match_pct/100 is carried as  *)
(* its numerator over 100, so that rel_tol * denom and abs_tol are         *)
(* compared on the common scale of hundredths.  The arithmetic is exact;   *)
(* IEEE rounding, NaN and infinities of Python floats are not modelled.    *)
(***************************************************************************)
EXTENDS Integers, Sequences, FiniteSets, TLC

VARIABLES
    \* ---- main ----
    pc,              \* position of main
    match_pct,       \* cfg.match_pct
    abs_tol_mm3,     \* cfg.abs_tol_mm3
    paths_ok,        \* all four command line paths exist
    nfiles,          \* len(fcstd_files)
    total_files, ok_files, mismatch_files, error_files,
    exit_code,       \* process exit status, -1 while running
    tool_calls,      \* number of subprocess.run invocations so far
    log,             \* history: what happened to each file, in order
    \* ---- extract_volumes ----
    report,          \* argument of extract_volumes
    ext_result,      \* its result (or the exception it raised)
    \* ---- compare_maps ----
    baseline, new,   \* arguments of compare_maps
    cmp_result       \* its result (or the exception it raised)

vars == <<pc, match_pct, abs_tol_mm3, paths_ok, nfiles, total_files, ok_files,
          mismatch_files, error_files, exit_code, tool_calls, log,
          report, ext_result, baseline, new, cmp_result>>

main_vars == <<pc, match_pct, abs_tol_mm3, paths_ok, nfiles, total_files,
               ok_files, mismatch_files, error_files, exit_code, tool_calls, log>>

(***************************************************************************)
(* Bounds                                                                  *)
(***************************************************************************)
MaxFiles == 3
MaxSolids == 2
MaxVol == 2

(***************************************************************************)
(* JSON values as json.loads produces them, tagged by their Python type.   *)
(* A dict is the sequence of its (key, value) items in insertion order,    *)
(* keys unique.                                                            *)
(***************************************************************************)
JNull == [t |-> "null"]
JBool(b) == [t |-> "bool", v |-> b]
JInt(n) == [t |-> "int", v |-> n]
JFloat(x) == [t |-> "float", v |-> x]
JStr(s) == [t |-> "str", v |-> s]
JList(items) == [t |-> "list", v |-> items]
JDict(items) == [t |-> "dict", v |-> items]

\* isinstance(x, dict), isinstance(x, list), isinstance(x, str)
IsDict(x) == x.t = "dict"
IsList(x) == x.t = "list"
IsStr(x) == x.t = "str"
\* isinstance(x, int): bool is a subclass of int in Python
IsInt(x) == x.t \in {"int", "bool"}
\* isinstance(x, (int, float))
IsNumber(x) == x.t \in {"int", "float", "bool"}

\* Python truth value, as used by `s.get("object_name") or obj_name`
Truthy(x) ==
    CASE x.t = "null" -> FALSE
      [] x.t = "bool" -> x.v
      [] x.t \in {"int", "float"} -> x.v # 0
      [] x.t = "str" -> x.v # ""
      [] x.t \in {"list", "dict"} -> Len(x.v) > 0

\* The integer a Python int (or bool) stands for as a dict key: True == 1
IntOf(x) == IF x.t = "bool" THEN (IF x.v THEN 1 ELSE 0) ELSE x.v
\* float(vol)
Float(x) == IF x.t = "bool" THEN (IF x.v THEN 1 ELSE 0) ELSE x.v

\* d.get(k, default) on a dict value
Get(d, k, default) ==
    LET hits == {j \in 1..Len(d.v) : d.v[j][1] = k}
    IN  IF hits = {} THEN default ELSE d.v[CHOOSE j \in hits : TRUE][2]

\* out[k] = v on a Python dict modelled as a function
Put(out, k, v) == [x \in (DOMAIN out) \cup {k} |-> IF x = k THEN v ELSE out[x]]

EmptyMap == [x \in {} |-> 0]

\* Results of calls that may raise
Ok(val) == [exc |-> "none", val |-> <<val>>]
Raise(e) == [exc |-> e, val |-> <<>>]

(***************************************************************************)
(* extract_volumes                                                         *)
(***************************************************************************)
\* body of `for s in solids`
solid_step(s, obj_name, out) ==
    IF ~IsDict(s) THEN out
    ELSE LET override == Get(s, "object_name", JNull)
             object_name == IF Truthy(override) THEN override ELSE JStr(obj_name)
             idx == Get(s, "index", JNull)
             metrics == Get(s, "metrics", JDict(<<>>))
         IN  IF ~IsDict(metrics) THEN out
             ELSE LET vol == Get(metrics, "volume_mm3", JNull)
                  IN  IF IsStr(object_name) /\ IsInt(idx) /\ IsNumber(vol)
                      THEN Put(out, <<object_name.v, IntOf(idx)>>, Float(vol))
                      ELSE out

RECURSIVE solids_loop(_, _, _)
solids_loop(solids, obj_name, out) ==
    IF solids = <<>> THEN out
    ELSE solids_loop(Tail(solids), obj_name, solid_step(Head(solids), obj_name, out))

\* body of `for obj_name, obj_entry in objects.items()`
object_step(item, out) ==
    LET obj_name == item[1]
        obj_entry == item[2]
    IN  IF ~IsDict(obj_entry) THEN out
        ELSE LET solids == Get(obj_entry, "solids", JList(<<>>))
             IN  IF ~IsList(solids) THEN out
                 ELSE solids_loop(solids.v, obj_name, out)

RECURSIVE objects_loop(_, _)
objects_loop(items, out) ==
    IF items = <<>> THEN out
    ELSE objects_loop(Tail(items), object_step(Head(items), out))

\* report.get raises AttributeError when report is not a dict
extract_volumes(rep) ==
    IF ~IsDict(rep) THEN Raise("AttributeError")
    ELSE LET objects == Get(rep, "objects", JDict(<<>>))
         IN  IF ~IsDict(objects) THEN Ok(EmptyMap)
             ELSE Ok(objects_loop(objects.v, EmptyMap))

(***************************************************************************)
(* required_rel_tol and compare_maps                                       *)
(***************************************************************************)
None == <<>>
Some(x) == <<x>>

Abs(x) == IF x < 0 THEN -x ELSE x
Max(x, y) == IF y > x THEN y ELSE x

\* 1.0 - match_pct/100.0, returned as its numerator over 100
required_rel_tol(pct) ==
    IF ~(0 < pct /\ pct <= 100) THEN Raise("ValueError")
    ELSE Ok(100 - pct)

\* Python's order on str for the names of the model: by code point
CodePoint == [A |-> 65, B |-> 66, a |-> 97]
\* (faulty variant) the sort key taken as (k[1], k[0])
KeyLess_index_first(k1, k2) ==
    \/ k1[2] < k2[2]
    \/ k1[2] = k2[2] /\ CodePoint[k1[1]] < CodePoint[k2[1]]

\* the sort key (k[0], k[1]) compared as a Python tuple
KeyLess(k1, k2) ==
    \/ CodePoint[k1[1]] < CodePoint[k2[1]]
    \/ k1[1] = k2[1] /\ k1[2] < k2[2]

\* sorted(all_keys, key=lambda k: (k[0], k[1]))
RECURSIVE sorted(_)
sorted(S) ==
    IF S = {} THEN <<>>
    ELSE LET m == CHOOSE x \in S : \A y \in S \ {x} : KeyLess(x, y)
         IN  <<m>> \o sorted(S \ {m})

\* err / denom as a fraction; den = 0 stands for math.inf
Frac(num, den) == [num |-> num, den |-> den]

\* d.get(key): None when the key is absent
GetOpt(d, key) == IF key \in DOMAIN d THEN Some(d[key]) ELSE None

SolidDiff(key, b, n, rel_err, ok, reason) ==
    [key |-> key, baseline |-> b, new |-> n, rel_err |-> rel_err,
     ok |-> ok, reason |-> reason]

\* (faulty variant) `if not b` in place of `if b is None`: 0.0 taken for absent
is_none_falsy(x) == x = None \/ x = Some(0)

\* `b is None`, `n is None`
is_none(x) == x = None

\* (faulty variant) denom = abs(b)
denominator_baseline_only(b, n) == Abs(b)

\* denom = max(abs(b), abs(n))
denominator(b, n) == Max(Abs(b), Abs(n))

\* (faulty variant) ok = err < tol
within_tol_strict(err, tol) == 100 * err < tol

\* ok = err <= tol, tol in hundredths
within_tol(err, tol) == 100 * err <= tol

\* body of `for key in sorted(all_keys, ...)`; rel_tol in hundredths
diff_step(key, base, nw, rel_tol, abs_tol) ==
    LET b == GetOpt(base, key)
        n == GetOpt(nw, key)
    IN  IF is_none(b)
        THEN SolidDiff(key, None, n, None, FALSE, "missing_in_baseline")
        ELSE IF is_none(n)
        THEN SolidDiff(key, b, None, None, FALSE, "missing_in_new")
        ELSE LET denom == denominator(b[1], n[1])
                 tol == Max(100 * abs_tol, rel_tol * denom)
                 err == Abs(n[1] - b[1])
                 ok == within_tol(err, tol)
                 rel_err == IF denom > 0 THEN Frac(err, denom)
                            ELSE IF err = 0 THEN Frac(0, 1) ELSE Frac(1, 0)
             IN  SolidDiff(key, b, n, Some(rel_err), ok,
                           IF ok THEN "ok" ELSE "volume_mismatch")

compare_maps(base, nw, pct, abs_tol) ==
    LET rt == required_rel_tol(pct)
    IN  IF rt.exc # "none" THEN Raise(rt.exc)
        ELSE LET all_keys == (DOMAIN base) \cup (DOMAIN nw)
                 order == sorted(all_keys)
             IN  Ok([j \in 1..Len(order) |->
                        diff_step(order[j], base, nw, rt.val[1], abs_tol)])

(***************************************************************************)
(* main: collaborators                                                     *)
(***************************************************************************)
\* What the external tool does on one file: it times out, or exits with
\* returncode, leaving an output file that is absent, empty, not JSON, or
\* JSON text whose parsed value is json.
ToolRun(kind, json) == [kind |-> kind, json |-> json]

run_freecad_script(run) ==
    CASE run.kind = "timeout" -> Raise("TimeoutExpired")
      [] run.kind = "rc_nonzero" -> Raise("RuntimeError")
      [] run.kind = "no_output_file" -> Raise("FileNotFoundError")
      [] run.kind = "empty_output" -> Raise("RuntimeError")
      [] run.kind = "invalid_json" -> Raise("RuntimeError")
      [] run.kind = "json" -> Ok(run.json)

\* The baseline file: unreadable (json.load raises) or JSON with value json
BaseFile(kind, json) == [kind |-> kind, json |-> json]

load_json(file) ==
    IF file.kind = "unreadable" THEN Raise("JSONDecodeError") ELSE Ok(file.json)

\* One discovered .FCStd file as the loop meets it
FileInput(exists, run, base) == [baseline_exists |-> exists, run |-> run, base |-> base]

\* The tally a loop iteration adds to, with the exception that ended it
Tally(kind, exc, invoked, nbad) ==
    [kind |-> kind, exc |-> exc, invoked |-> invoked, nbad |-> nbad]

\* (faulty variant) the except clauses count a timeout with the mismatches
on_exception_timeout_as_mismatch(exc) ==
    IF exc = "TimeoutExpired" THEN Tally("mismatch", exc, TRUE, 0)
    ELSE Tally("error", exc, TRUE, 0)

\* except subprocess.TimeoutExpired / except Exception: error_files += 1
on_exception(exc) == Tally("error", exc, TRUE, 0)

\* (faulty variant) bad = [d for d in diffs if d.ok]
BadDiffs_inverted(diffs) == SelectSeq(diffs, LAMBDA d : d.ok)

\* bad = [d for d in diffs if not d.ok]
BadDiffs(diffs) == SelectSeq(diffs, LAMBDA d : ~d.ok)

\* body of `for fcstd_path in fcstd_files`
process_file(f, pct, abs_tol) ==
    IF ~f.baseline_exists THEN Tally("mismatch", "none", FALSE, 0)
    ELSE LET new_report == run_freecad_script(f.run)
         IN  IF new_report.exc # "none" THEN on_exception(new_report.exc)
         ELSE LET base_report == load_json(f.base)
         IN  IF base_report.exc # "none" THEN on_exception(base_report.exc)
         ELSE LET new_map == extract_volumes(new_report.val[1])
         IN  IF new_map.exc # "none" THEN on_exception(new_map.exc)
         ELSE LET base_map == extract_volumes(base_report.val[1])
         IN  IF base_map.exc # "none" THEN on_exception(base_map.exc)
         ELSE LET diffs == compare_maps(base_map.val[1], new_map.val[1], pct, abs_tol)
         IN  IF diffs.exc # "none" THEN on_exception(diffs.exc)
         ELSE LET bad == BadDiffs(diffs.val[1])
         IN  IF bad # <<>> THEN Tally("mismatch", "none", TRUE, Len(bad))
             ELSE Tally("ok", "none", TRUE, 0)

\* What the file was, told from the inputs alone (history only)
Event(f) ==
    CASE ~f.baseline_exists -> "baseline_missing"
      [] f.baseline_exists /\ f.run.kind = "timeout" -> "timeout"
      [] f.baseline_exists /\ f.run.kind \in {"rc_nonzero", "no_output_file",
                                               "empty_output", "invalid_json"} -> "tool_failure"
      [] f.baseline_exists /\ f.run.kind = "json" /\ f.base.kind = "unreadable"
            -> "baseline_unreadable"
      [] OTHER -> "loaded"

\* What happened to the file, for the history: its event, and the number of
\* failing outcomes when the two reports were compared (-1 when they were not)
Observed(f, pct, abs_tol) ==
    IF Event(f) # "loaded" THEN [event |-> Event(f), failing |-> -1]
    ELSE IF ~IsDict(f.run.json) \/ ~IsDict(f.base.json)
    THEN [event |-> "not_mapping", failing |-> -1]
    ELSE LET d == compare_maps(extract_volumes(f.base.json).val[1],
                               extract_volumes(f.run.json).val[1], pct, abs_tol)
         IN  IF d.exc # "none" THEN [event |-> "config_error", failing |-> -1]
             ELSE [event |-> "compared",
                   failing |-> Cardinality({j \in 1..Len(d.val[1]) : ~d.val[1][j].ok})]

(***************************************************************************)
(* main: inputs of the model                                               *)
(***************************************************************************)
\* {"objects": {"A": {"solids": [{"index": i, "metrics": {"volume_mm3": v}}]}}}
SolidJson(i, v) ==
    JDict(<< <<"index", i>>, <<"metrics", JDict(<< <<"volume_mm3", v>> >>)>> >>)
ReportOf(solids) ==
    JDict(<< <<"objects", JDict(<< <<"A", JDict(<< <<"solids", JList(solids)>> >>)>> >>)>> >>)

MainReports ==
    { ReportOf(<<SolidJson(JInt(0), JInt(1))>>),
      ReportOf(<<SolidJson(JInt(0), JInt(2))>>),
      ReportOf(<<SolidJson(JInt(0), JInt(2)), SolidJson(JInt(1), JFloat(2))>>),
      JDict(<<>>),
      JList(<<>>) }

ToolRuns ==
    { ToolRun(k, JNull) : k \in {"timeout", "rc_nonzero", "no_output_file",
                                   "empty_output", "invalid_json"} }
    \cup { ToolRun("json", r) : r \in MainReports }

BaseFiles == { BaseFile("unreadable", JNull) } \cup { BaseFile("json", r) : r \in MainReports }

FileInputs ==
    { FileInput(FALSE, ToolRun("timeout", JNull), BaseFile("unreadable", JNull)) }
    \cup { FileInput(TRUE, r, b) : r \in ToolRuns, b \in BaseFiles }

\* --match-pct and --abs-tol-mm3 values of the model
MatchPcts == {0, 50, 100, 101}
AbsTols == {0, 1}

ValidPct(pct) == 0 < pct /\ pct <= 100

(***************************************************************************)
(* Idle values of the variables a specification does not use               *)
(***************************************************************************)
Pending == [exc |-> "pending", val |-> <<>>]

MainIdle ==
    /\ pc = "idle" /\ paths_ok = TRUE /\ nfiles = 0
    /\ total_files = 0 /\ ok_files = 0 /\ mismatch_files = 0 /\ error_files = 0
    /\ exit_code = -1 /\ tool_calls = 0 /\ log = <<>>
CfgIdle == match_pct = 100 /\ abs_tol_mm3 = 0
ExtIdle == report = JNull /\ ext_result = Pending
CmpIdle == baseline = EmptyMap /\ new = EmptyMap /\ cmp_result = Pending

(***************************************************************************)
(* main                                                                    *)
(***************************************************************************)
Init ==
    /\ pc = "check_paths"
    /\ match_pct \in MatchPcts
    /\ abs_tol_mm3 \in AbsTols
    /\ paths_ok \in BOOLEAN
    /\ nfiles \in 0..MaxFiles
    /\ total_files = 0 /\ ok_files = 0 /\ mismatch_files = 0 /\ error_files = 0
    /\ exit_code = -1
    /\ tool_calls = 0
    /\ log = <<>>
    /\ ExtIdle /\ CmpIdle

\* for p in (freecad_exe, script_path, fcstd_dir, baseline_dir): ... return 3
CheckPaths ==
    /\ pc = "check_paths"
    /\ IF paths_ok
       THEN pc' = "discover" /\ exit_code' = exit_code
       ELSE pc' = "exited" /\ exit_code' = 3
    /\ UNCHANGED <<match_pct, abs_tol_mm3, paths_ok, nfiles, total_files, ok_files,
                   mismatch_files, error_files, tool_calls, log,
                   report, ext_result, baseline, new, cmp_result>>

\* cfg = CompareConfig(...); fcstd_files = find_fcstd_files(...); counters = 0
Discover ==
    /\ pc = "discover"
    /\ IF nfiles = 0
       THEN pc' = "exited" /\ exit_code' = 3
       ELSE pc' = "loop" /\ exit_code' = exit_code
    /\ total_files' = 0 /\ ok_files' = 0 /\ mismatch_files' = 0 /\ error_files' = 0
    /\ UNCHANGED <<match_pct, abs_tol_mm3, paths_ok, nfiles, tool_calls, log,
                   report, ext_result, baseline, new, cmp_result>>

\* one iteration of `for fcstd_path in fcstd_files`
ProcessFile ==
    /\ pc = "loop"
    /\ total_files < nfiles
    /\ \E f \in FileInputs :
          LET t == process_file(f, match_pct, abs_tol_mm3)
          IN  /\ total_files' = total_files + 1
              /\ ok_files' = IF t.kind = "ok" THEN ok_files + 1 ELSE ok_files
              /\ mismatch_files' = IF t.kind = "mismatch" THEN mismatch_files + 1
                                   ELSE mismatch_files
              /\ error_files' = IF t.kind = "error" THEN error_files + 1 ELSE error_files
              /\ tool_calls' = IF t.invoked THEN tool_calls + 1 ELSE tool_calls
              /\ log' = Append(log, Observed(f, match_pct, abs_tol_mm3))
    /\ UNCHANGED <<pc, match_pct, abs_tol_mm3, paths_ok, nfiles, exit_code,
                   report, ext_result, baseline, new, cmp_result>>

\* the summary block; required_rel_tol(cfg.match_pct) is evaluated outside any
\* try, so its ValueError ends the process with a traceback (status 1)
Summary ==
    /\ pc = "loop"
    /\ total_files = nfiles
    /\ IF required_rel_tol(match_pct).exc = "none"
       THEN pc' = "decide" /\ exit_code' = exit_code
       ELSE pc' = "crashed" /\ exit_code' = 1
    /\ UNCHANGED <<match_pct, abs_tol_mm3, paths_ok, nfiles, total_files, ok_files,
                   mismatch_files, error_files, tool_calls, log,
                   report, ext_result, baseline, new, cmp_result>>

\* (faulty variant) the mismatch test placed before the error test
main_status_mismatch_first(errors, mismatches) ==
    IF mismatches > 0 THEN 2 ELSE IF errors > 0 THEN 3 ELSE 0

\* if error_files > 0: return 3 / if mismatch_files > 0: return 2 / return 0
main_status(errors, mismatches) ==
    IF errors > 0 THEN 3 ELSE IF mismatches > 0 THEN 2 ELSE 0

Decide ==
    /\ pc = "decide"
    /\ pc' = "exited"
    /\ exit_code' = main_status(error_files, mismatch_files)
    /\ UNCHANGED <<match_pct, abs_tol_mm3, paths_ok, nfiles, total_files, ok_files,
                   mismatch_files, error_files, tool_calls, log,
                   report, ext_result, baseline, new, cmp_result>>

Next == CheckPaths \/ Discover \/ ProcessFile \/ Summary \/ Decide

Spec == Init /\ [][Next]_vars

\* main runs to completion: every step is a blocking call that returns
LiveSpec == Spec /\ WF_vars(Next)

(***************************************************************************)
(* Claims about main                                                       *)
(***************************************************************************)
\* number of files of the history whose entry satisfies P
CountLog(P(_)) == Cardinality({j \in 1..Len(log) : P(log[j])})

\* the per-file execution errors: tool failure, timeout, unusable output,
\* unreadable baseline
IsExecError(e) ==
    e.event \in {"timeout", "tool_failure", "baseline_unreadable", "not_mapping"}
IsConfigError(e) == e.event = "config_error"
IsMissing(e) == e.event = "baseline_missing"
IsFailing(e) == e.event = "compared" /\ e.failing > 0
IsPassing(e) == e.event = "compared" /\ e.failing = 0

PassedDiscovery == paths_ok /\ nfiles > 0
Returned == pc = "exited" /\ PassedDiscovery

\* C1: when main passes discovery with a match percentage in (0, 100], its
\* exit code is 3 if some file was an execution error, else 2 if some file had
\* a failing outcome or no baseline, else 0, whatever the order of the files.
C1_ExitCodePriority ==
    (Returned /\ ValidPct(match_pct)) =>
        exit_code = IF \E j \in 1..Len(log) : IsExecError(log[j]) THEN 3
                    ELSE IF \E j \in 1..Len(log) : IsMissing(log[j]) \/ IsFailing(log[j])
                    THEN 2 ELSE 0

\* a mismatch came first, an execution error later, and the run returned 3
C1_Witness ==
    /\ Returned /\ ValidPct(match_pct) /\ Len(log) >= 3
    /\ IsFailing(log[1]) /\ IsExecError(log[2]) /\ IsPassing(log[3])
    /\ exit_code = 3

\* C2 (as claimed): a match percentage outside (0, 100] is detected before any
\* file is processed: the tool is never invoked, no file is tallied, and the
\* run ends with exit code 3.
C2_EagerValidation ==
    ~ValidPct(match_pct) =>
        /\ tool_calls = 0
        /\ total_files = 0 /\ ok_files = 0 /\ mismatch_files = 0 /\ error_files = 0
        /\ (pc \in {"exited", "crashed"} => exit_code = 3)

C4_TallyPartition ==
    /\ total_files = Len(log)
    /\ ok_files = CountLog(IsPassing)
    /\ mismatch_files = CountLog(IsMissing) + CountLog(IsFailing)
    /\ error_files = CountLog(IsExecError) + CountLog(IsConfigError)
    /\ tool_calls = total_files - CountLog(IsMissing)
    /\ total_files = ok_files + mismatch_files + error_files
    /\ (pc \in {"decide", "crashed"} \/ Returned) => total_files = nfiles

\* after the loop: one file of each kind
C4_Witness ==
    /\ pc = "decide" /\ Len(log) >= 3
    /\ IsMissing(log[1]) /\ log[2].event = "baseline_unreadable" /\ IsFailing(log[3])
    /\ tool_calls = 2 /\ mismatch_files = 2 /\ error_files = 1

(***************************************************************************)
(* extract_volumes applied to bounded reports                              *)
(***************************************************************************)
\* marks a field that the JSON object does not have
Absent == [t |-> "absent"]
\* the dict with the given items, fields marked Absent left out
DictOf(items) == JDict(SelectSeq(items, LAMBDA it : it[2].t # "absent"))

MetricsOf(vol) == DictOf(<< <<"volume_mm3", vol>> >>)
SolidOf(override, idx, metrics) ==
    DictOf(<< <<"object_name", override>>, <<"index", idx>>, <<"metrics", metrics>> >>)

ExtOverrides == {Absent, JStr(""), JStr("B"), JInt(5)}
ExtIndexes == {JInt(0), JInt(1), JBool(TRUE), JStr("1"), JFloat(1), JNull, Absent}
ExtMetrics == {Absent, JList(<<>>)}
              \cup {MetricsOf(v) : v \in {Absent, JInt(2), JFloat(3), JBool(TRUE),
                                          JStr("2"), JNull}}

\* every shape of one solid entry, and the well-formed ones used in longer lists
AnySolid == {SolidOf(o, i, m) : o \in ExtOverrides, i \in ExtIndexes, m \in ExtMetrics}
            \cup {JInt(7)}
CoreSolid == {SolidOf(o, i, MetricsOf(v)) :
                 o \in {Absent, JStr("B")}, i \in {JInt(0), JInt(1), JBool(TRUE)},
                 v \in {JInt(2), JFloat(3)}}

RECURSIVE SeqsOf(_, _)
\* the sequences of exactly n elements of S
SeqsOf(S, n) ==
    IF n = 0 THEN {<<>>}
    ELSE {Append(q, x) : q \in SeqsOf(S, n - 1), x \in S}

SolidLists == {<<>>} \cup SeqsOf(AnySolid, 1)
              \cup UNION {SeqsOf(CoreSolid, n) : n \in 2..MaxSolids}

ObjectEntries == {JNull, JDict(<<>>), DictOf(<< <<"solids", JStr("x")>> >>)}
                 \cup {DictOf(<< <<"solids", JList(l)>> >>) : l \in SolidLists}

ExtReports ==
    {JNull, JList(<<>>), JStr("x"), JInt(1), JDict(<<>>),
     DictOf(<< <<"objects", JList(<<>>)>> >>)}
    \cup {DictOf(<< <<"objects", JDict(<< <<"A", e>> >>)>> >>) : e \in ObjectEntries}
    \cup {DictOf(<< <<"objects",
                     JDict(<< <<"A", DictOf(<< <<"solids", JList(<<s1>>)>> >>)>>,
                              <<"B", DictOf(<< <<"solids", JList(<<s2>>)>> >>)>> >>)>> >>) :
             s1 \in CoreSolid, s2 \in CoreSolid}

ExtInit == MainIdle /\ CfgIdle /\ CmpIdle /\ report \in ExtReports /\ ext_result = Pending

\* one call extract_volumes(report)
Extract ==
    /\ ext_result = Pending
    /\ ext_result' = extract_volumes(report)
    /\ UNCHANGED <<main_vars, report, baseline, new, cmp_result>>

ExtNext == Extract

ExtSpec == ExtInit /\ [][ExtNext]_vars

\* C8 (as claimed): extract_volumes never raises, and for an input that is not
\* a mapping it returns the empty map.
C8_NeverRaises ==
    ext_result # Pending =>
        /\ ext_result.exc = "none"
        /\ ~IsDict(report) => ext_result.val = <<EmptyMap>>

\* the solid entries extract_volumes reaches, each with its object's key
ReachedSolids(rep) ==
    IF ~IsDict(rep) THEN {}
    ELSE LET objects == Get(rep, "objects", JDict(<<>>))
         IN  IF ~IsDict(objects) THEN {}
             ELSE UNION { LET e == objects.v[i][2]
                              l == IF IsDict(e) THEN Get(e, "solids", JList(<<>>)) ELSE JNull
                          IN  IF IsList(l)
                              THEN {<<objects.v[i][1], l.v[j]>> : j \in 1..Len(l.v)}
                              ELSE {}
                          : i \in 1..Len(objects.v) }

\* the per-solid override when present and non-empty, else the object's key
EffectiveName(obj_name, s) ==
    LET o == Get(s, "object_name", JNull)
    IN  IF Truthy(o) THEN o ELSE JStr(obj_name)
SolidIndex(s) == Get(s, "index", JNull)
SolidVolume(s) ==
    LET m == Get(s, "metrics", JDict(<<>>))
    IN  IF IsDict(m) THEN Get(m, "volume_mm3", JNull) ELSE JNull

\* C9 (as claimed): a reached solid entry contributes the key (effective name,
\* index) iff the name is text, the index a JSON integer and the volume a JSON
\* number; an index or volume of another JSON type, boolean included, gives
\* no key.
C9_ExtractionRule ==
    (ext_result # Pending /\ ext_result.exc = "none") =>
        DOMAIN ext_result.val[1] =
            { <<EffectiveName(r[1], r[2]).v, SolidIndex(r[2]).v>> :
                r \in { x \in ReachedSolids(report) :
                          /\ IsDict(x[2])
                          /\ EffectiveName(x[1], x[2]).t = "str"
                          /\ SolidIndex(x[2]).t = "int"
                          /\ SolidVolume(x[2]).t \in {"int", "float"} } }

(***************************************************************************)
(* compare_maps applied to bounded maps                                    *)
(***************************************************************************)
CmpKeys == {<<"B", 1>>, <<"a", 0>>, <<"a", 1>>}
CmpVols == {-1} \cup 0..MaxVol
CmpMaps == UNION {[D -> CmpVols] : D \in SUBSET CmpKeys}

CmpInit ==
    /\ MainIdle /\ ExtIdle /\ cmp_result = Pending
    /\ \/ /\ match_pct \in {1, 50, 100} /\ abs_tol_mm3 \in AbsTols
          /\ baseline \in CmpMaps /\ new \in CmpMaps
       \/ /\ match_pct \in {0, 101} /\ abs_tol_mm3 \in AbsTols
          /\ baseline \in [{<<"B", 1>>} -> {1}]
          /\ new \in [{<<"B", 1>>} -> {1, 2}]

\* one call compare_maps(baseline, new, cfg)
Compare ==
    /\ cmp_result = Pending
    /\ cmp_result' = compare_maps(baseline, new, match_pct, abs_tol_mm3)
    /\ UNCHANGED <<main_vars, report, ext_result, baseline, new>>

CmpNext == Compare

CmpSpec == CmpInit /\ [][CmpNext]_vars

Compared == cmp_result # Pending /\ cmp_result.exc = "none"
AllKeys == (DOMAIN baseline) \cup (DOMAIN new)
BothKeys == (DOMAIN baseline) \cap (DOMAIN new)

\* C5: for a valid config compare_maps returns exactly one outcome per key of
\* the union of the two key sets, ascending by entity name (code points) and
\* then by index, and leaves both maps as they were.
C5_CompleteSorted ==
    [][(cmp_result = Pending /\ cmp_result' # Pending /\ ValidPct(match_pct)) =>
          /\ cmp_result'.exc = "none"
          /\ baseline' = baseline /\ new' = new
          /\ LET diffs == cmp_result'.val[1]
             IN  /\ {diffs[j].key : j \in 1..Len(diffs)} = AllKeys
                 /\ Len(diffs) = Cardinality(AllKeys)
                 /\ \A j \in 1..(Len(diffs) - 1) :
                       LET k1 == diffs[j].key
                           k2 == diffs[j + 1].key
                       IN  \/ CodePoint[k1[1]] < CodePoint[k2[1]]
                           \/ k1[1] = k2[1] /\ k1[2] < k2[2]]_vars

\* three outcomes, keys of both names, some key in one map only
C5_Witness ==
    /\ Compared /\ Len(cmp_result.val[1]) = 3
    /\ DOMAIN baseline = {<<"a", 0>>, <<"B", 1>>}
    /\ DOMAIN new = {<<"a", 1>>, <<"a", 0>>}

\* the outcomes compare_maps returned for key k
OutcomesOf(k) ==
    {cmp_result.val[1][j] : j \in {i \in 1..Len(cmp_result.val[1]) :
                                      cmp_result.val[1][i].key = k}}

\* C6: a key only in baseline gives missing_in_new, failed, no new value, no
\* relative error; a key only in new gives missing_in_baseline, failed, no
\* baseline value, no relative error; a key in both gives neither reason.
C6_MissingReasons ==
    Compared =>
        \A k \in AllKeys :
            /\ OutcomesOf(k) # {}
            /\ \A d \in OutcomesOf(k) :
                  /\ (k \in DOMAIN baseline /\ k \notin DOMAIN new) =>
                        /\ d.reason = "missing_in_new" /\ ~d.ok
                        /\ d.baseline = <<baseline[k]>> /\ d.new = <<>>
                        /\ d.rel_err = <<>>
                  /\ (k \notin DOMAIN baseline /\ k \in DOMAIN new) =>
                        /\ d.reason = "missing_in_baseline" /\ ~d.ok
                        /\ d.baseline = <<>> /\ d.new = <<new[k]>>
                        /\ d.rel_err = <<>>
                  /\ k \in BothKeys =>
                        d.reason \notin {"missing_in_baseline", "missing_in_new"}

\* one key only in baseline, one only in new, one in both with value 0
C6_Witness ==
    /\ Compared
    /\ DOMAIN baseline = {<<"B", 1>>, <<"a", 1>>}
    /\ DOMAIN new = {<<"a", 0>>, <<"a", 1>>}
    /\ baseline[<<"a", 1>>] = 0 /\ new[<<"a", 1>>] = 0

\* C7: for a key in both maps with values b and n the outcome is ok iff
\* |n - b| <= max(abs_tol, (1 - match_pct/100) * max(|b|, |n|)), else it is a
\* volume_mismatch; b = n = 0 is always ok, and so is a deviation within the
\* absolute floor.
C7_ToleranceRule ==
    Compared =>
        \A k \in BothKeys :
            /\ OutcomesOf(k) # {}
            /\ \A d \in OutcomesOf(k) :
                  LET b == baseline[k]
                      n == new[k]
                      dev == IF n >= b THEN n - b ELSE b - n
                      mb == IF b >= 0 THEN b ELSE 0 - b
                      mn == IF n >= 0 THEN n ELSE 0 - n
                      mag == IF mb >= mn THEN mb ELSE mn
                      within == \/ dev <= abs_tol_mm3
                                \/ 100 * dev <= (100 - match_pct) * mag
                  IN  /\ d.ok <=> within
                      /\ d.reason = IF within THEN "ok" ELSE "volume_mismatch"
                      /\ (b = 0 /\ n = 0) => d.ok
                      /\ dev <= abs_tol_mm3 => d.ok

\* at 50 percent with floor 1: 1 vs 2 passes on the relative bound at equality,
\* 0 vs 1 passes on the floor alone, -1 vs 1 fails
C7_Witness ==
    /\ Compared /\ match_pct = 50 /\ abs_tol_mm3 = 1
    /\ BothKeys = CmpKeys
    /\ baseline[<<"B", 1>>] = 1 /\ new[<<"B", 1>>] = 2
    /\ baseline[<<"a", 0>>] = 0 /\ new[<<"a", 0>>] = 1
    /\ baseline[<<"a", 1>>] = -1 /\ new[<<"a", 1>>] = 1
    /\ cmp_result.val[1][3].reason = "volume_mismatch"

\* the reason with baseline and new exchanged
SwapReason(r) ==
    CASE r = "missing_in_baseline" -> "missing_in_new"
      [] r = "missing_in_new" -> "missing_in_baseline"
      [] OTHER -> r

\* C10: compare_maps(A, B, cfg) and compare_maps(B, A, cfg) give outcomes for
\* the same keys in the same order with the same ok flag and, for keys in
\* both maps, the same relative error; the two missing reasons are exchanged.
C10_SwapSymmetry ==
    Compared =>
        LET fwd == cmp_result.val[1]
            rev == compare_maps(new, baseline, match_pct, abs_tol_mm3)
        IN  /\ rev.exc = "none"
            /\ Len(rev.val[1]) = Len(fwd)
            /\ \A j \in 1..Len(fwd) :
                  LET f == fwd[j]
                      r == rev.val[1][j]
                  IN  /\ r.key = f.key
                      /\ r.ok = f.ok
                      /\ r.rel_err = f.rel_err
                      /\ r.reason = SwapReason(f.reason)
                      /\ r.baseline = f.new /\ r.new = f.baseline

\* a key in each map only, and a key in both whose values differ in magnitude
C10_Witness ==
    /\ Compared
    /\ DOMAIN baseline = {<<"B", 1>>, <<"a", 0>>}
    /\ DOMAIN new = {<<"a", 0>>, <<"a", 1>>}
    /\ baseline[<<"a", 0>>] = 1 /\ new[<<"a", 0>>] = 2
    /\ cmp_result.val[1][2].ok

====
